---------------------------- MODULE Spec2Model ----------------------------
(***************************************************************************)
(* aws-init: resolution of "aws-secret:" references in the environment.   *)
(*                                                                         *)
(* Strings are sequences of one-character strings.  An error is a chain of *)
(* frames, outermost first: fmt.Errorf("...%w", err) puts a frame in front *)
(* of the chain it wraps, and the nil error is the empty chain.            *)
(***************************************************************************)
EXTENDS Integers, Sequences, FiniteSets

\* ------------------------------------------------------------- constants

secretPrefix == <<"a","w","s","-","s","e","c","r","e","t",":">>

ssmPrefix ==
  <<"/","a","w","s","/","r","e","f","e","r","e","n","c","e","/",
    "s","e","c","r","e","t","s","m","a","n","a","g","e","r","/">>

maxRetries == 3

\* retryDelay, in milliseconds
retryDelay == 100

\* const gracefulTimeout = 10 * time.Second, in seconds
gracefulTimeout == 10

\* make(chan os.Signal, 1)
sigChanCap == 1

\* ---------------------------------------------------------------- bounds

\* longest environment handed to resolveSecrets
MaxEnv == 2

\* distinct failures the stores and the configuration loader can report
NumStoreErrors == 2

\* signals that reach the supervisor while it is subscribed
MaxSignals == 2

\* seconds that pass in one step of the clock
TickStep == 5

\* ------------------------------------------------------ package strings

HasPrefix(s, p) == Len(s) >= Len(p) /\ SubSeq(s, 1, Len(p)) = p

TrimPrefix(s, p) == IF HasPrefix(s, p) THEN SubSeq(s, Len(p) + 1, Len(s)) ELSE s

Contains(s, sub) ==
  \E k \in 0..(Len(s) - Len(sub)) : SubSeq(s, k + 1, k + Len(sub)) = sub

\* position of the first c in s at or after from, 0 when there is none
IndexFrom(s, c, from) ==
  LET hits == {k \in from..Len(s) : s[k] = c}
  IN  IF hits = {} THEN 0 ELSE CHOOSE k \in hits : \A m \in hits : k <= m

Cut(s, c) ==
  LET k == IndexFrom(s, c, 1)
  IN  IF k = 0
      THEN [before |-> s, after |-> <<>>, found |-> FALSE]
      ELSE [before |-> SubSeq(s, 1, k - 1),
            after  |-> SubSeq(s, k + 1, Len(s)),
            found  |-> TRUE]

\* strings.SplitN(s, c, 2) with a one-character separator
SplitN_last(s, c) ==
  LET hits == {k \in 1..Len(s) : s[k] = c}
      k    == IF hits = {} THEN 0 ELSE CHOOSE x \in hits : \A m \in hits : m <= x
  IN  IF k = 0 THEN <<s>>
      ELSE <<SubSeq(s, 1, k - 1), SubSeq(s, k + 1, Len(s))>>

SplitN(s, c) ==
  LET k == IndexFrom(s, c, 1)
  IN  IF k = 0 THEN <<s>>
      ELSE <<SubSeq(s, 1, k - 1), SubSeq(s, k + 1, Len(s))>>

\* ---------------------------------------------------------------- errors

Nil == <<>>

Frame(kind, a, b, n) == [kind |-> kind, a |-> a, b |-> b, n |-> n]

\* fmt.Errorf without %w, or an error of a callee
Leaf(kind) == <<Frame(kind, <<>>, <<>>, 0)>>

\* the failure number e reported by a store or by the configuration loader
StoreErr(e) == <<Frame("store", <<>>, <<>>, e)>>

StoreErrors == 1..NumStoreErrors

\* ctx.Err()
CtxErr == Leaf("context")

\* ---------------------------------------------------- encoding/json

\* json.Unmarshal into a map[string]string, for payloads written without
\* white space and without escapes: an object of string members whose values
\* are strings or null, or the literal null.  Anything else is an error.
EmptyMap == [k \in {} |-> <<>>]

MapSet(m, k, v) == [x \in (DOMAIN m) \cup {k} |-> IF x = k THEN v ELSE m[x]]

JsonNull == <<"n","u","l","l">>

\* the string literal opening at pos: its text and the position after it
ParseString(s, pos) ==
  IF pos > Len(s) \/ s[pos] # "\""
  THEN [ok |-> FALSE, str |-> <<>>, next |-> 0]
  ELSE LET close == IndexFrom(s, "\"", pos + 1)
       IN  IF close = 0
           THEN [ok |-> FALSE, str |-> <<>>, next |-> 0]
           ELSE [ok |-> TRUE, str |-> SubSeq(s, pos + 1, close - 1),
                 next |-> close + 1]

\* a member value opening at pos: a string, or null (stored as "")
ParseValue(s, pos) ==
  IF pos + 3 <= Len(s) /\ SubSeq(s, pos, pos + 3) = JsonNull
  THEN [ok |-> TRUE, str |-> <<>>, next |-> pos + 4]
  ELSE ParseString(s, pos)

RECURSIVE ParseMembers(_, _, _)
ParseMembers(s, pos, m) ==
  LET k == ParseString(s, pos)
  IN  IF ~k.ok \/ k.next > Len(s) \/ s[k.next] # ":"
      THEN [ok |-> FALSE, map |-> EmptyMap]
      ELSE LET v == ParseValue(s, k.next + 1)
           IN  IF ~v.ok \/ v.next > Len(s)
               THEN [ok |-> FALSE, map |-> EmptyMap]
               ELSE LET m2 == MapSet(m, k.str, v.str)
                    IN  IF s[v.next] = ","
                        THEN ParseMembers(s, v.next + 1, m2)
                        ELSE IF s[v.next] = "}" /\ v.next = Len(s)
                             THEN [ok |-> TRUE, map |-> m2]
                             ELSE [ok |-> FALSE, map |-> EmptyMap]

Unmarshal_lenient(s) ==
  IF Len(s) >= 1 /\ s[1] = "{" /\ ParseMembers(s, 2, EmptyMap).ok
  THEN ParseMembers(s, 2, EmptyMap)
  ELSE [ok |-> TRUE, map |-> EmptyMap]

Unmarshal(s) ==
  IF s = JsonNull \/ s = <<"{","}">>
  THEN [ok |-> TRUE, map |-> EmptyMap]
  ELSE IF Len(s) >= 1 /\ s[1] = "{"
       THEN ParseMembers(s, 2, EmptyMap)
       ELSE [ok |-> FALSE, map |-> EmptyMap]

\* ------------------------------------------------- inputs and responses

Q == "\""

\* the environment entries a run draws from
MalformedEntry   == <<"M">>
PlainEntry       == <<"G","=","v">>
EqualsEntry      == <<"G","=","v","=","w">>
EmptyRefEntry    == <<"K","=">> \o secretPrefix
EmptyNameEntry   == <<"K","=">> \o secretPrefix \o <<"#","k">>
EmptyNameNoKey   == <<"K","=">> \o secretPrefix \o <<"#">>
SimpleEntry      == <<"K","=">> \o secretPrefix \o <<"n">>
KeyedEntry       == <<"J","=">> \o secretPrefix \o <<"n","#","k">>
MultiHashEntry   == <<"J","=">> \o secretPrefix \o <<"n","#","k","#","k">>
TrailingHash     == <<"J","=">> \o secretPrefix \o <<"n","#">>
ParameterEntry   == <<"P","=">> \o secretPrefix \o ssmPrefix \o <<"t","#","k">>
MidValueEntry    == <<"G","=","x">> \o secretPrefix \o <<"n">>
MalformedPrefix  == secretPrefix \o <<"n">>

Entries ==
  { MalformedEntry, PlainEntry, EqualsEntry, EmptyRefEntry, EmptyNameEntry,
    EmptyNameNoKey, SimpleEntry, KeyedEntry, MultiHashEntry, TrailingHash,
    ParameterEntry, MidValueEntry, MalformedPrefix }

RECURSIVE SeqsUpTo(_, _)
SeqsUpTo(S, n) ==
  IF n = 0 THEN {<<>>}
  ELSE LET shorter == SeqsUpTo(S, n - 1)
       IN  shorter \cup {Append(q, x) : q \in {r \in shorter : Len(r) = n - 1}, x \in S}

Envs == SeqsUpTo(Entries, MaxEnv)

\* the string payloads a store can hold
PayloadKV    == <<"{",Q,"k",Q,":",Q,"v",Q,"}">>
PayloadEmpty == <<"{","}">>
PayloadText  == <<"x">>
PayloadMulti == <<"{",Q,"k","#","k",Q,":",Q,"w",Q,",",Q,Q,":",Q,"e",Q,"}">>

Payloads == {PayloadKV, PayloadEmpty, PayloadText, PayloadMulti}

\* what one GetSecretValue or GetParameter call comes back with: a failure,
\* a response with no string in it, or a response carrying a payload
Resp(kind, e, val) == [kind |-> kind, e |-> e, val |-> val]

Failures  == {Resp("err", e, <<>>) : e \in StoreErrors}
Responses == Failures \cup {Resp("nil", 0, <<>>)}
                      \cup {Resp("val", 0, p) : p \in Payloads}

\* ----------------------------------------------------------------- state

VARIABLES
  env,          \* the argument of resolveSecrets
  ctxDone,      \* ctx is cancelled or past its deadline
  pc,           \* where the call stands
  configLoads,  \* calls of config.LoadDefaultConfig
  idx,          \* position of the range loop over env (1-based)
  result,       \* the local slice result
  ret,          \* what resolveSecrets returned: [val, err]
  failedAt,     \* position of the entry whose resolution failed, 0 if none
  rsErr,        \* the error the last resolveSecret call returned
  op,           \* the fetch running or last run: "secret", "param", "none"
  fname,        \* its name argument
  parts,        \* resolveSecret's parts (empty for a parameter reference)
  i,            \* the retry loop's i
  lastErr,      \* the retry loop's lastErr
  resps,        \* what the client calls of this fetch came back with, in order
  callCtxDone,  \* ctx was already done when the client call in flight began
  delays,       \* the waits of this fetch that elapsed, in milliseconds
  fetchRet,     \* what the fetch returned: [val, err]
  fetches       \* calls of getSecret and getParameter since resolveSecrets was called

VARIABLES
  xpc,          \* where main and execute stand
  cmdEnv,       \* cmd.Env
  child,        \* the child process: "none", "running", "zombie", "reaped"
  status,       \* the child's wait status
  exitCode,     \* <<c>> once execute has returned c
  notifyOn,     \* sigChan is registered with signal.Notify
  sigChan,      \* the signals buffered in sigChan
  arrived,      \* signals of the registered set delivered to the supervisor
  hpc,          \* where handleSignals stands: "none", "recv", "group", "pid"
  cur,          \* the signal handleSignals took last and the sends made for it
  forwards      \* one record per SIGTERM, SIGINT or SIGQUIT forwarded

resolverVars ==
  << env, ctxDone, pc, configLoads, idx, result, ret, failedAt, rsErr, op,
     fname, parts, i, lastErr, resps, callCtxDone, delays, fetchRet, fetches >>

execVars ==
  << xpc, cmdEnv, child, status, exitCode, notifyOn, sigChan, arrived, hpc,
     cur, forwards >>

vars == << resolverVars, execVars >>

loopVars  == << idx, result >>
fetchVars == << op, fname, parts, i, lastErr, resps, callCtxDone, delays, fetchRet, fetches >>

NoRet == [val |-> <<>>, err |-> Nil]

NoStatus == [kind |-> "none", code |-> 0]

NoSignal == [sig |-> "none", live |-> FALSE, sends |-> <<>>]

\* execute has not been called
ExecIdle ==
  /\ xpc = "idle"
  /\ cmdEnv = <<>>
  /\ child = "none"
  /\ status = NoStatus
  /\ exitCode = <<>>
  /\ notifyOn = FALSE
  /\ sigChan = <<>>
  /\ arrived = 0
  /\ hpc = "none"
  /\ cur = NoSignal
  /\ forwards = <<>>

Init ==
  /\ ExecIdle
  /\ env \in Envs
  /\ ctxDone = FALSE
  /\ pc = "scan"
  /\ configLoads = 0
  /\ idx = 0
  /\ result = <<>>
  /\ ret = NoRet
  /\ failedAt = 0
  /\ rsErr = Nil
  /\ op = "none"
  /\ fname = <<>>
  /\ parts = <<>>
  /\ i = 0
  /\ lastErr = Nil
  /\ resps = <<>>
  /\ callCtxDone = FALSE
  /\ delays = <<>>
  /\ fetchRet = NoRet
  /\ fetches = 0

\* ------------------------------------------------------- resolveSecrets

\* the scan looks for the prefix at the start of a value only
HasSecrets_byValue(e) ==
  \E k \in 1..Len(e) :
    Cut(e[k], "=").found /\ HasPrefix(Cut(e[k], "=").after, secretPrefix)

\* the quick scan: does any entry hold the prefix
HasSecrets(e) == \E k \in 1..Len(e) : Contains(e[k], secretPrefix)

\* return env, nil
FastReturn_filtered(e) ==
  LET Found(x) == Cut(x, "=").found
  IN  [val |-> SelectSeq(e, Found), err |-> Nil]

FastReturn(e) == [val |-> e, err |-> Nil]

\* the error of line 106: the entry's name in front of resolveSecret's error
ResolveError_value(entry, cause) ==
  <<Frame("resolve", Cut(entry, "=").after, <<>>, 0)>> \o cause

ResolveError(entry, cause) ==
  <<Frame("resolve", Cut(entry, "=").before, <<>>, 0)>> \o cause

\* return nil, err
FailReturn_partial(partial, entry, cause) ==
  [val |-> partial, err |-> ResolveError(entry, cause)]

FailReturn(partial, entry, cause) ==
  [val |-> <<>>, err |-> ResolveError(entry, cause)]

\* result = append(result, name+"="+value)
AppendEntry_front(res, name, value) == <<name \o <<"=">> \o value>> \o res

AppendEntry(res, name, value) == Append(res, name \o <<"=">> \o value)

\* the loop goes on after an entry failed
Fail_goesOn(cause) ==
  /\ rsErr' = cause
  /\ failedAt' = idx
  /\ ret' = FailReturn(result, env[idx], cause)
  /\ pc' = "loop"

\* resolveSecret returned cause for the entry at idx
Fail(cause) ==
  /\ rsErr' = cause
  /\ failedAt' = idx
  /\ ret' = FailReturn(result, env[idx], cause)
  /\ pc' = "done"

ResolveSecretsScan ==
  /\ pc = "scan"
  /\ IF HasSecrets(env)
     THEN pc' = "config" /\ UNCHANGED ret
     ELSE pc' = "done" /\ ret' = FastReturn(env)
  /\ UNCHANGED << env, ctxDone, configLoads, failedAt, rsErr >>
  /\ UNCHANGED execVars
  /\ UNCHANGED loopVars
  /\ UNCHANGED fetchVars

LoadDefaultConfig ==
  /\ pc = "config"
  /\ configLoads' = configLoads + 1
  /\ \/ /\ pc' = "loop"
        /\ idx' = 1
        /\ result' = <<>>
        /\ UNCHANGED ret
     \/ \E e \in StoreErrors :
          /\ pc' = "done"
          /\ ret' = [val |-> <<>>, err |-> Leaf("config") \o StoreErr(e)]
          /\ UNCHANGED loopVars
  /\ UNCHANGED << env, ctxDone, failedAt, rsErr >>
  /\ UNCHANGED execVars
  /\ UNCHANGED fetchVars

LoopMalformed_kept ==
  /\ pc = "loop"
  /\ idx <= Len(env)
  /\ ~Cut(env[idx], "=").found
  /\ idx' = idx + 1
  /\ result' = Append(result, env[idx])
  /\ UNCHANGED << env, ctxDone, pc, configLoads, ret, failedAt, rsErr >>
  /\ UNCHANGED execVars
  /\ UNCHANGED fetchVars

\* if !found { continue }
LoopMalformed ==
  /\ pc = "loop"
  /\ idx <= Len(env)
  /\ ~Cut(env[idx], "=").found
  /\ idx' = idx + 1
  /\ UNCHANGED << env, ctxDone, pc, configLoads, result, ret, failedAt, rsErr >>
  /\ UNCHANGED execVars
  /\ UNCHANGED fetchVars

\* the value is split at every '=' and only its first piece is kept
LoopPassThrough_splitAll ==
  /\ pc = "loop"
  /\ idx <= Len(env)
  /\ LET c == Cut(env[idx], "=")
     IN  /\ c.found
         /\ ~HasPrefix(c.after, secretPrefix)
         /\ result' = AppendEntry(result, c.before, Cut(c.after, "=").before)
  /\ idx' = idx + 1
  /\ UNCHANGED << env, ctxDone, pc, configLoads, ret, failedAt, rsErr >>
  /\ UNCHANGED execVars
  /\ UNCHANGED fetchVars

LoopPassThrough ==
  /\ pc = "loop"
  /\ idx <= Len(env)
  /\ LET c == Cut(env[idx], "=")
     IN  /\ c.found
         /\ ~HasPrefix(c.after, secretPrefix)
         /\ result' = AppendEntry(result, c.before, c.after)
  /\ idx' = idx + 1
  /\ UNCHANGED << env, ctxDone, pc, configLoads, ret, failedAt, rsErr >>
  /\ UNCHANGED execVars
  /\ UNCHANGED fetchVars

LoopReturn ==
  /\ pc = "loop"
  /\ idx > Len(env)
  /\ ret' = [val |-> result, err |-> Nil]
  /\ pc' = "done"
  /\ UNCHANGED << env, ctxDone, configLoads, failedAt, rsErr >>
  /\ UNCHANGED execVars
  /\ UNCHANGED loopVars
  /\ UNCHANGED fetchVars

\* --------------------------------------------------------- resolveSecret

\* the entry at idx carries a reference: its value
IsReference ==
  /\ pc = "loop"
  /\ idx <= Len(env)
  /\ Cut(env[idx], "=").found
  /\ HasPrefix(Cut(env[idx], "=").after, secretPrefix)

Trimmed == TrimPrefix(Cut(env[idx], "=").after, secretPrefix)

\* secretName == ""
EmptyName_never(p) == FALSE

EmptyName(p) == p[1] = <<>>

StartFetch(o, name, p) ==
  /\ op' = o
  /\ fname' = name
  /\ parts' = p
  /\ i' = 0
  /\ lastErr' = Nil
  /\ resps' = <<>>
  /\ delays' = <<>>
  /\ fetchRet' = NoRet
  /\ fetches' = fetches + 1
  /\ pc' = "attempt"
  /\ UNCHANGED callCtxDone

ResolveSecretEmptyReference ==
  /\ IsReference
  /\ Trimmed = <<>>
  /\ Fail(Leaf("empty secret reference"))
  /\ UNCHANGED << env, ctxDone, configLoads >>
  /\ UNCHANGED execVars
  /\ UNCHANGED loopVars
  /\ UNCHANGED fetchVars

ResolveSecretParameter_split ==
  /\ IsReference
  /\ Trimmed # <<>>
  /\ HasPrefix(Trimmed, ssmPrefix)
  /\ StartFetch("param", SplitN(Trimmed, "#")[1], <<>>)
  /\ UNCHANGED << env, ctxDone, configLoads, ret, failedAt, rsErr >>
  /\ UNCHANGED execVars
  /\ UNCHANGED loopVars

\* lines 135-138: the whole remainder goes to getParameter
ResolveSecretParameter ==
  /\ IsReference
  /\ Trimmed # <<>>
  /\ HasPrefix(Trimmed, ssmPrefix)
  /\ StartFetch("param", Trimmed, <<>>)
  /\ UNCHANGED << env, ctxDone, configLoads, ret, failedAt, rsErr >>
  /\ UNCHANGED execVars
  /\ UNCHANGED loopVars

ResolveSecretEmptyName ==
  /\ IsReference
  /\ Trimmed # <<>>
  /\ ~HasPrefix(Trimmed, ssmPrefix)
  /\ EmptyName(SplitN(Trimmed, "#"))
  /\ Fail(Leaf("empty secret name"))
  /\ UNCHANGED << env, ctxDone, configLoads >>
  /\ UNCHANGED execVars
  /\ UNCHANGED loopVars
  /\ UNCHANGED fetchVars

ResolveSecretSecret ==
  /\ IsReference
  /\ Trimmed # <<>>
  /\ ~HasPrefix(Trimmed, ssmPrefix)
  /\ LET p == SplitN(Trimmed, "#")
     IN  /\ ~EmptyName(p)
         /\ StartFetch("secret", p[1], p)
  /\ UNCHANGED << env, ctxDone, configLoads, ret, failedAt, rsErr >>
  /\ UNCHANGED execVars
  /\ UNCHANGED loopVars

Extract_parseFirst(p, secretValue) ==
  LET parsed == Unmarshal(secretValue)
  IN  IF ~parsed.ok
      THEN [val |-> <<>>,
            err |-> <<Frame("not valid JSON", p[1], <<>>, 0)>> \o Leaf("json")]
      ELSE IF Len(p) = 1
           THEN [val |-> secretValue, err |-> Nil]
           ELSE IF p[2] \notin DOMAIN parsed.map
                THEN [val |-> <<>>, err |-> <<Frame("key not found", p[2], p[1], 0)>>]
                ELSE [val |-> parsed.map[p[2]], err |-> Nil]

\* lines 152-169: the value resolveSecret makes of the fetched secret string
Extract(p, secretValue) ==
  IF Len(p) = 1
  THEN [val |-> secretValue, err |-> Nil]
  ELSE LET key    == p[2]
           parsed == Unmarshal(secretValue)
       IN  IF ~parsed.ok
           THEN [val |-> <<>>,
                 err |-> <<Frame("not valid JSON", p[1], <<>>, 0)>> \o Leaf("json")]
           ELSE IF key \notin DOMAIN parsed.map
                THEN [val |-> <<>>, err |-> <<Frame("key not found", key, p[1], 0)>>]
                ELSE [val |-> parsed.map[key], err |-> Nil]

\* what resolveSecret returns once its fetch has returned
Resolved ==
  IF fetchRet.err # Nil THEN [val |-> <<>>, err |-> fetchRet.err]
  ELSE IF op = "param" THEN fetchRet
  ELSE Extract(parts, fetchRet.val)

ResolveSecretFails ==
  /\ pc = "fetched"
  /\ Resolved.err # Nil
  /\ Fail(Resolved.err)
  /\ UNCHANGED << env, ctxDone, configLoads >>
  /\ UNCHANGED execVars
  /\ UNCHANGED loopVars
  /\ UNCHANGED fetchVars

\* resolveSecret has returned: its locals and its fetch's are gone
FetchLocalsGone ==
  /\ op' = "none"
  /\ fname' = <<>>
  /\ parts' = <<>>
  /\ i' = 0
  /\ lastErr' = Nil
  /\ resps' = <<>>
  /\ callCtxDone' = FALSE
  /\ delays' = <<>>
  /\ fetchRet' = NoRet

ResolveSecretReturns ==
  /\ pc = "fetched"
  /\ Resolved.err = Nil
  /\ rsErr' = Nil
  /\ result' = AppendEntry(result, Cut(env[idx], "=").before, Resolved.val)
  /\ idx' = idx + 1
  /\ pc' = "loop"
  /\ FetchLocalsGone
  /\ UNCHANGED << env, ctxDone, configLoads, ret, failedAt, fetches >>
  /\ UNCHANGED execVars

\* ------------------------------------------------ getSecret, getParameter

\* fmt.Errorf("failed after %d retries: %w", maxRetries, lastErr)
RetriesError(cause) == <<Frame("failed after retries", <<>>, <<>>, maxRetries)>> \o cause

\* the response carries no string: "binary secrets not supported" from
\* getSecret, "parameter has no value" from getParameter
NoValueError(o) ==
  Leaf(IF o = "secret" THEN "binary secrets not supported" ELSE "parameter has no value")

\* the loop condition i < maxRetries
MoreAttempts_le(n) == n <= maxRetries

MoreAttempts(n) == n < maxRetries

\* err != nil
IsFailure_orNoValue(r) == r.kind \in {"err", "nil"}

IsFailure(r) == r.kind = "err"

\* the same wait before every retry
Delay_flat(n) == retryDelay

\* the wait before the attempt with loop index n
Delay(n) == retryDelay * n

\* the input of the client call, built once before the retry loop:
\* GetSecretValueInput{SecretId} or GetParameterInput{Name, WithDecryption}
Request(o, name) ==
  IF o = "secret"
  THEN [api |-> "GetSecretValue", id |-> name, withDecryption |-> FALSE]
  ELSE [api |-> "GetParameter", id |-> name, withDecryption |-> TRUE]

\* the client call of one loop iteration begins
Call(o) ==
  /\ pc = "attempt"
  /\ op = o
  /\ pc' = "inflight"
  /\ callCtxDone' = ctxDone
  /\ UNCHANGED << env, ctxDone, configLoads, ret, failedAt, rsErr >>
  /\ UNCHANGED execVars
  /\ UNCHANGED loopVars
  /\ UNCHANGED << op, fname, parts, i, lastErr, resps, delays, fetchRet, fetches >>

\* the client call comes back with r; a call begun on a finished context fails
CallReturns(o, r) ==
  /\ pc = "inflight"
  /\ op = o
  /\ callCtxDone => r.kind = "err"
  /\ resps' = Append(resps, r)
  /\ IF IsFailure(r)
     THEN /\ lastErr' = StoreErr(r.e)
          /\ i' = i + 1
          /\ IF MoreAttempts(i + 1)
             THEN pc' = "select" /\ UNCHANGED fetchRet
             ELSE /\ pc' = "fetched"
                  /\ fetchRet' = [val |-> <<>>, err |-> RetriesError(StoreErr(r.e))]
     ELSE /\ pc' = "fetched"
          /\ fetchRet' = IF r.kind = "nil"
                         THEN [val |-> <<>>, err |-> NoValueError(o)]
                         ELSE [val |-> r.val, err |-> Nil]
          /\ UNCHANGED << i, lastErr >>
  /\ UNCHANGED << env, ctxDone, configLoads, ret, failedAt, rsErr >>
  /\ UNCHANGED execVars
  /\ UNCHANGED loopVars
  /\ UNCHANGED << op, fname, parts, callCtxDone, delays, fetches >>

WaitElapsed_ignoreCtx(o) ==
  /\ pc = "select"
  /\ op = o
  /\ delays' = Append(delays, Delay(i))
  /\ pc' = "attempt"
  /\ UNCHANGED << env, ctxDone, configLoads, ret, failedAt, rsErr >>
  /\ UNCHANGED execVars
  /\ UNCHANGED loopVars
  /\ UNCHANGED << op, fname, parts, i, lastErr, resps, callCtxDone, fetchRet, fetches >>

\* the select of lines 183-187: time.After wins while the context is live
WaitElapsed(o) ==
  /\ pc = "select"
  /\ op = o
  /\ ~ctxDone
  /\ delays' = Append(delays, Delay(i))
  /\ pc' = "attempt"
  /\ UNCHANGED << env, ctxDone, configLoads, ret, failedAt, rsErr >>
  /\ UNCHANGED execVars
  /\ UNCHANGED loopVars
  /\ UNCHANGED << op, fname, parts, i, lastErr, resps, callCtxDone, fetchRet, fetches >>

\* ctx.Done() wins: return "", ctx.Err()
WaitCancelled(o) ==
  /\ pc = "select"
  /\ op = o
  /\ ctxDone
  /\ fetchRet' = [val |-> <<>>, err |-> CtxErr]
  /\ pc' = "fetched"
  /\ UNCHANGED << env, ctxDone, configLoads, ret, failedAt, rsErr >>
  /\ UNCHANGED execVars
  /\ UNCHANGED loopVars
  /\ UNCHANGED << op, fname, parts, i, lastErr, resps, callCtxDone, delays, fetches >>

GetSecretValue == Call("secret")

GetSecretValueReturns == \E r \in Responses : CallReturns("secret", r)

GetSecretWait == WaitElapsed("secret")

GetSecretCancelled == WaitCancelled("secret")

GetParameter == Call("param")

GetParameterReturns == \E r \in Responses : CallReturns("param", r)

GetParameterWait == WaitElapsed("param")

GetParameterCancelled == WaitCancelled("param")

\* ------------------------------------------------------------ the context

\* the context is cancelled or its deadline passes
CancelContext ==
  /\ ~ctxDone
  /\ pc # "done"
  /\ ctxDone' = TRUE
  /\ UNCHANGED << env, pc, configLoads, ret, failedAt, rsErr >>
  /\ UNCHANGED execVars
  /\ UNCHANGED loopVars
  /\ UNCHANGED fetchVars

\* ----------------------------------------------------------------- main

MainExecute_unresolved ==
  /\ pc = "done"
  /\ xpc = "idle"
  /\ ret.err = Nil
  /\ xpc' = "start"
  /\ cmdEnv' = env
  /\ UNCHANGED << child, status, exitCode, notifyOn, sigChan, arrived, hpc, cur, forwards >>
  /\ UNCHANGED resolverVars

\* os.Exit(execute(args[0], args[1:], env)): execute is called with what
\* resolveSecrets returned
MainExecute ==
  /\ pc = "done"
  /\ xpc = "idle"
  /\ ret.err = Nil
  /\ xpc' = "start"
  /\ cmdEnv' = ret.val
  /\ UNCHANGED << child, status, exitCode, notifyOn, sigChan, arrived, hpc, cur, forwards >>
  /\ UNCHANGED resolverVars

\* log.Fatalf("aws-init: %v", err)
MainFatal ==
  /\ pc = "done"
  /\ xpc = "idle"
  /\ ret.err # Nil
  /\ xpc' = "fatal"
  /\ UNCHANGED << cmdEnv, child, status, exitCode, notifyOn, sigChan, arrived, hpc, cur, forwards >>
  /\ UNCHANGED resolverVars

\* os.Exit: the supervisor process and all its goroutines are gone
MainExit ==
  /\ xpc = "returned"
  /\ xpc' = "exited"
  /\ UNCHANGED << cmdEnv, child, status, exitCode, notifyOn, sigChan, arrived, hpc, cur, forwards >>
  /\ UNCHANGED resolverVars

\* the supervisor process is running
Alive == xpc \notin {"idle", "fatal", "exited"}

\* -------------------------------------------------------- the child process

\* the signals registered with signal.Notify, and those handleSignals
\* forwards in its first case
Handled   == {"TERM", "INT", "QUIT", "USR1", "USR2"}
TermClass == {"TERM", "INT", "QUIT"}

\* the exit codes the child ends with
ExitCodes == {0, 1, 42, 127}

Exited(c)     == [kind |-> "exited", code |-> c]
Signaled      == [kind |-> "signaled", code |-> 0]

\* the forwards whose 10 seconds are still running when the child ends
MarkEarly(fs) ==
  [k \in DOMAIN fs |->
     IF fs[k].age < gracefulTimeout THEN [fs[k] EXCEPT !.early = TRUE] ELSE fs[k]]

\* what syscall.Kill can come back with: a running child may take the signal
\* or the call may fail; a zombie takes a signal to its pid without effect; a
\* reaped pid is gone; the group may or may not have members left
CanSend(target, ok) ==
  \/ child = "running"
  \/ target = "group"
  \/ child = "zombie" /\ ok
  \/ child = "reaped" /\ ~ok

\* the signal ends the child: SIGKILL always, the others when not caught
Ends(sig, ok, fatal) ==
  /\ ok
  /\ child = "running"
  /\ sig = "KILL" \/ fatal

\* one syscall.Kill and what it does to the child; fs is forwards after the
\* caller's own update
SendEffect(sig, ok, fatal, fs) ==
  IF Ends(sig, ok, fatal)
  THEN /\ child' = "zombie"
       /\ status' = Signaled
       /\ forwards' = MarkEarly(fs)
  ELSE /\ ~fatal
       /\ forwards' = fs
       /\ UNCHANGED << child, status >>

\* the child ends on its own with exit code c
ChildExits ==
  /\ child = "running"
  /\ \E c \in ExitCodes :
       /\ child' = "zombie"
       /\ status' = Exited(c)
       /\ forwards' = MarkEarly(forwards)
  /\ UNCHANGED << xpc, cmdEnv, exitCode, notifyOn, sigChan, arrived, hpc, cur >>
  /\ UNCHANGED resolverVars

\* ---------------------------------------------------------------- execute

\* cmd.Start() returns an error: return 1
ExecuteStartFails_goesOn ==
  /\ xpc = "start"
  /\ xpc' = "notify"
  /\ UNCHANGED << cmdEnv, child, status, exitCode, notifyOn, sigChan, arrived, hpc, cur, forwards >>
  /\ UNCHANGED resolverVars

ExecuteStartFails ==
  /\ xpc = "start"
  /\ xpc' = "returned"
  /\ exitCode' = <<1>>
  /\ UNCHANGED << cmdEnv, child, status, notifyOn, sigChan, arrived, hpc, cur, forwards >>
  /\ UNCHANGED resolverVars

\* cmd.Start() succeeds: the child runs in its own process group
ExecuteStart ==
  /\ xpc = "start"
  /\ child' = "running"
  /\ xpc' = "notify"
  /\ UNCHANGED << cmdEnv, status, exitCode, notifyOn, sigChan, arrived, hpc, cur, forwards >>
  /\ UNCHANGED resolverVars

\* signal.Notify(sigChan, SIGTERM, SIGINT, SIGQUIT, SIGUSR1, SIGUSR2)
ExecuteNotify ==
  /\ xpc = "notify"
  /\ notifyOn' = TRUE
  /\ xpc' = "go"
  /\ UNCHANGED << cmdEnv, child, status, exitCode, sigChan, arrived, hpc, cur, forwards >>
  /\ UNCHANGED resolverVars

\* go handleSignals(sigChan, pid)
ExecuteGo ==
  /\ xpc = "go"
  /\ hpc' = "recv"
  /\ xpc' = "wait"
  /\ UNCHANGED << cmdEnv, child, status, exitCode, notifyOn, sigChan, arrived, cur, forwards >>
  /\ UNCHANGED resolverVars

\* cmd.Wait gives up on a child that still runs
ExecuteWait_givesUp ==
  /\ xpc = "wait"
  /\ child \in {"running", "zombie"}
  /\ child' = IF child = "zombie" THEN "reaped" ELSE child
  /\ xpc' = "stop"
  /\ UNCHANGED << cmdEnv, status, exitCode, notifyOn, sigChan, arrived, hpc, cur, forwards >>
  /\ UNCHANGED resolverVars

\* cmd.Wait() returns once the child has ended, and reaps it
ExecuteWait ==
  /\ xpc = "wait"
  /\ child = "zombie"
  /\ child' = "reaped"
  /\ xpc' = "stop"
  /\ UNCHANGED << cmdEnv, status, exitCode, notifyOn, sigChan, arrived, hpc, cur, forwards >>
  /\ UNCHANGED resolverVars

\* syscall.WaitStatus.ExitStatus(): the exit code, -1 when the process did
\* not exit on its own
ExitStatus(st) == IF st.kind = "exited" THEN st.code ELSE -1

\* lines 169-179: Wait's error is nil for exit code 0, an *exec.ExitError
\* carrying the wait status otherwise
ReturnCode_failed(st) ==
  IF st.kind = "exited" /\ st.code = 0 THEN 0 ELSE 1

ReturnCode(st) ==
  IF st.kind = "exited" /\ st.code = 0 THEN 0 ELSE ExitStatus(st)

\* signal.Stop(sigChan), then the return
ExecuteStop ==
  /\ xpc = "stop"
  /\ notifyOn' = FALSE
  /\ exitCode' = <<ReturnCode(status)>>
  /\ xpc' = "returned"
  /\ UNCHANGED << cmdEnv, child, status, sigChan, arrived, hpc, cur, forwards >>
  /\ UNCHANGED resolverVars

\* a registered signal reaches the supervisor: the runtime puts it in sigChan
\* without blocking, so it is lost when the buffer is full
SignalArrives ==
  /\ Alive
  /\ notifyOn
  /\ arrived < MaxSignals
  /\ arrived' = arrived + 1
  /\ \E s \in Handled :
       sigChan' = IF Len(sigChan) < sigChanCap THEN Append(sigChan, s) ELSE sigChan
  /\ UNCHANGED << xpc, cmdEnv, child, status, exitCode, notifyOn, hpc, cur, forwards >>
  /\ UNCHANGED resolverVars

\* a signal reaches the supervisor after cmd.Start and before signal.Notify:
\* the Go runtime ends the program on SIGTERM, SIGINT and SIGQUIT, and takes
\* SIGUSR1 and SIGUSR2 without doing anything; nothing is put in sigChan
SignalBeforeNotify ==
  /\ xpc = "notify"
  /\ child # "none"
  /\ arrived < MaxSignals
  /\ arrived' = arrived + 1
  /\ \E s \in Handled : xpc' = IF s \in TermClass THEN "exited" ELSE xpc
  /\ UNCHANGED << cmdEnv, child, status, exitCode, notifyOn, sigChan, hpc, cur, forwards >>
  /\ UNCHANGED resolverVars

\* ---------------------------------------------- handleSignals, forwardSignal

\* for sig := range sigChan
HandleSignalsReceive ==
  /\ Alive
  /\ hpc = "recv"
  /\ sigChan # <<>>
  /\ cur' = [sig |-> Head(sigChan), live |-> child = "running", sends |-> <<>>]
  /\ sigChan' = Tail(sigChan)
  /\ hpc' = "group"
  /\ UNCHANGED << xpc, cmdEnv, child, status, exitCode, notifyOn, arrived, forwards >>
  /\ UNCHANGED resolverVars

Sent(target, ok) == [target |-> target, ok |-> ok]

ForwardSignalGroup_returnsOnError ==
  /\ Alive
  /\ hpc = "group"
  /\ \E ok \in BOOLEAN, fatal \in BOOLEAN :
       /\ CanSend("group", ok)
       /\ cur' = [cur EXCEPT !.sends = Append(@, Sent("group", ok))]
       /\ SendEffect(cur.sig, ok, fatal, forwards)
       /\ hpc' = IF ok THEN "pid" ELSE "recv"
  /\ UNCHANGED << xpc, cmdEnv, exitCode, notifyOn, sigChan, arrived >>
  /\ UNCHANGED resolverVars

\* syscall.Kill(-pid, syscallSig)
ForwardSignalGroup ==
  /\ Alive
  /\ hpc = "group"
  /\ \E ok \in BOOLEAN, fatal \in BOOLEAN :
       /\ CanSend("group", ok)
       /\ cur' = [cur EXCEPT !.sends = Append(@, Sent("group", ok))]
       /\ SendEffect(cur.sig, ok, fatal, forwards)
  /\ hpc' = "pid"
  /\ UNCHANGED << xpc, cmdEnv, exitCode, notifyOn, sigChan, arrived >>
  /\ UNCHANGED resolverVars

\* the record of a forwarded SIGTERM, SIGINT or SIGQUIT: the time since it was
\* forwarded, the timer goroutine started for it and that goroutine's sends
Forward(sig, timer, early) ==
  [sig |-> sig, age |-> 0, timer |-> timer, kills |-> <<>>, early |-> early]

\* a timer for every signal of the first case, not for SIGTERM alone
StartsTimer_anyTerm(sig) == sig \in TermClass

\* if sig == syscall.SIGTERM { go func() { time.Sleep(gracefulTimeout) ...
StartsTimer_never(sig) == FALSE

StartsTimer(sig) == sig = "TERM"

\* one timer at a time: no timer is started while another one sleeps
ForwardSignalPid_dedup ==
  /\ Alive
  /\ hpc = "pid"
  /\ \E ok \in BOOLEAN, fatal \in BOOLEAN :
       /\ CanSend("pid", ok)
       /\ cur' = [cur EXCEPT !.sends = Append(@, Sent("pid", ok))]
       /\ LET gone == child # "running" \/ Ends(cur.sig, ok, fatal)
              one  == \A k \in DOMAIN forwards : forwards[k].timer # "sleeping"
              f    == Forward(cur.sig,
                              IF StartsTimer(cur.sig) /\ one THEN "sleeping" ELSE "none",
                              cur.live /\ gone)
          IN  SendEffect(cur.sig, ok, fatal,
                         IF cur.sig \in TermClass
                         THEN Append(forwards, f) ELSE forwards)
  /\ hpc' = "recv"
  /\ UNCHANGED << xpc, cmdEnv, exitCode, notifyOn, sigChan, arrived >>
  /\ UNCHANGED resolverVars

\* syscall.Kill(pid, syscallSig), then the timer goroutine of lines 201-212
ForwardSignalPid ==
  /\ Alive
  /\ hpc = "pid"
  /\ \E ok \in BOOLEAN, fatal \in BOOLEAN :
       /\ CanSend("pid", ok)
       /\ cur' = [cur EXCEPT !.sends = Append(@, Sent("pid", ok))]
       /\ LET gone == child # "running" \/ Ends(cur.sig, ok, fatal)
              f    == Forward(cur.sig,
                              IF StartsTimer(cur.sig) THEN "sleeping" ELSE "none",
                              cur.live /\ gone)
          IN  SendEffect(cur.sig, ok, fatal,
                         IF cur.sig \in TermClass
                         THEN Append(forwards, f) ELSE forwards)
  /\ hpc' = "recv"
  /\ UNCHANGED << xpc, cmdEnv, exitCode, notifyOn, sigChan, arrived >>
  /\ UNCHANGED resolverVars

\* -------------------------------------------------------------- the timers

\* time passes for the forwards that are waiting
AgeCap == gracefulTimeout + 1

Waiting(f) == f.timer \in {"sleeping", "none"} /\ f.age < AgeCap

Older(f) ==
  IF Waiting(f)
  THEN [f EXCEPT !.age = IF f.age + TickStep > AgeCap THEN AgeCap ELSE f.age + TickStep]
  ELSE f

Tick ==
  /\ Alive
  /\ \E k \in DOMAIN forwards : Waiting(forwards[k])
  /\ forwards' = [k \in DOMAIN forwards |-> Older(forwards[k])]
  /\ UNCHANGED << xpc, cmdEnv, child, status, exitCode, notifyOn, sigChan, arrived, hpc, cur >>
  /\ UNCHANGED resolverVars

\* one send of a timer: its target, whether syscall.Kill returned nil, whether
\* the child was running, and whether the signal went to what is left of the
\* child's process group (Setpgid, line 133) after the child was reaped
Killed(target, ok) ==
  [target |-> target, ok |-> ok, live |-> child = "running",
   others |-> target = "group" /\ ok /\ child = "reaped"]

\* time.Sleep(gracefulTimeout) has returned
SleepOver_atOnce(f) == TRUE

SleepOver(f) == f.age >= gracefulTimeout

\* the timer is given up once the child has ended
TimerKillPid_onlyLive ==
  /\ Alive
  /\ child = "running"
  /\ \E k \in DOMAIN forwards :
       /\ forwards[k].timer = "sleeping"
       /\ SleepOver(forwards[k])
       /\ \E ok \in BOOLEAN :
            /\ CanSend("pid", ok)
            /\ SendEffect("KILL", ok, FALSE,
                 [forwards EXCEPT ![k].timer = "killedpid",
                                  ![k].kills = Append(@, Killed("pid", ok))])
  /\ UNCHANGED << xpc, cmdEnv, exitCode, notifyOn, sigChan, arrived, hpc, cur >>
  /\ UNCHANGED resolverVars

\* a later SIGTERM takes the deadline over: only the newest timer fires
TimerKillPid_restarted ==
  /\ Alive
  /\ \E k \in DOMAIN forwards :
       /\ forwards[k].timer = "sleeping"
       /\ \A j \in DOMAIN forwards : j > k => forwards[j].timer # "sleeping"
       /\ SleepOver(forwards[k])
       /\ \E ok \in BOOLEAN :
            /\ CanSend("pid", ok)
            /\ SendEffect("KILL", ok, FALSE,
                 [forwards EXCEPT ![k].timer = "killedpid",
                                  ![k].kills = Append(@, Killed("pid", ok))])
  /\ UNCHANGED << xpc, cmdEnv, exitCode, notifyOn, sigChan, arrived, hpc, cur >>
  /\ UNCHANGED resolverVars

\* syscall.Kill(pid, syscall.SIGKILL)
TimerKillPid ==
  /\ Alive
  /\ \E k \in DOMAIN forwards :
       /\ forwards[k].timer = "sleeping"
       /\ SleepOver(forwards[k])
       /\ \E ok \in BOOLEAN :
            /\ CanSend("pid", ok)
            /\ SendEffect("KILL", ok, FALSE,
                 [forwards EXCEPT ![k].timer = "killedpid",
                                  ![k].kills = Append(@, Killed("pid", ok))])
  /\ UNCHANGED << xpc, cmdEnv, exitCode, notifyOn, sigChan, arrived, hpc, cur >>
  /\ UNCHANGED resolverVars

\* syscall.Kill(-pid, syscall.SIGKILL)
TimerKillGroup ==
  /\ Alive
  /\ \E k \in DOMAIN forwards :
       /\ forwards[k].timer = "killedpid"
       /\ \E ok \in BOOLEAN :
            /\ CanSend("group", ok)
            /\ SendEffect("KILL", ok, FALSE,
                 [forwards EXCEPT ![k].timer = "done",
                                  ![k].kills = Append(@, Killed("group", ok))])
  /\ UNCHANGED << xpc, cmdEnv, exitCode, notifyOn, sigChan, arrived, hpc, cur >>
  /\ UNCHANGED resolverVars

\* ---------------------------------------------------------- specification

Next ==
  \/ ResolveSecretsScan
  \/ LoadDefaultConfig
  \/ LoopMalformed
  \/ LoopPassThrough
  \/ LoopReturn
  \/ ResolveSecretEmptyReference
  \/ ResolveSecretParameter
  \/ ResolveSecretEmptyName
  \/ ResolveSecretSecret
  \/ ResolveSecretFails
  \/ ResolveSecretReturns
  \/ GetSecretValue
  \/ GetSecretValueReturns
  \/ GetSecretWait
  \/ GetSecretCancelled
  \/ GetParameter
  \/ GetParameterReturns
  \/ GetParameterWait
  \/ GetParameterCancelled
  \/ CancelContext
  \/ MainExecute
  \/ MainFatal

Spec == Init /\ [][Next]_vars

\* execute from its call on, for an environment that holds no reference
InitExec ==
  /\ env = <<PlainEntry>>
  /\ ctxDone = FALSE
  /\ pc = "done"
  /\ configLoads = 0
  /\ idx = 0
  /\ result = <<>>
  /\ ret = FastReturn(env)
  /\ failedAt = 0
  /\ rsErr = Nil
  /\ op = "none"
  /\ fname = <<>>
  /\ parts = <<>>
  /\ i = 0
  /\ lastErr = Nil
  /\ resps = <<>>
  /\ callCtxDone = FALSE
  /\ delays = <<>>
  /\ fetchRet = NoRet
  /\ fetches = 0
  /\ xpc = "start"
  /\ cmdEnv = ret.val
  /\ child = "none"
  /\ status = NoStatus
  /\ exitCode = <<>>
  /\ notifyOn = FALSE
  /\ sigChan = <<>>
  /\ arrived = 0
  /\ hpc = "none"
  /\ cur = NoSignal
  /\ forwards = <<>>

NextExec ==
  \/ ExecuteStartFails
  \/ ExecuteStart
  \/ ExecuteNotify
  \/ ExecuteGo
  \/ ExecuteWait
  \/ ExecuteStop
  \/ MainExit
  \/ ChildExits
  \/ SignalArrives
  \/ SignalBeforeNotify
  \/ HandleSignalsReceive
  \/ ForwardSignalGroup
  \/ ForwardSignalPid
  \/ Tick
  \/ TimerKillPid
  \/ TimerKillGroup

SpecExec == InitExec /\ [][NextExec]_vars

\* the same program where every goroutine that can take a step is scheduled:
\* execute's own (lines 147-179), the relay task (lines 194-222), the timer
\* goroutines (lines 202-211); and time passes
FairSpecExec ==
  /\ SpecExec
  /\ WF_vars(ExecuteNotify \/ ExecuteGo \/ ExecuteWait \/ ExecuteStop)
  /\ WF_vars(HandleSignalsReceive \/ ForwardSignalGroup \/ ForwardSignalPid)
  /\ WF_vars(TimerKillPid \/ TimerKillGroup)
  /\ WF_vars(Tick)

TypeOK ==
  /\ pc \in {"scan", "config", "loop", "attempt", "inflight", "select", "fetched", "done"}
  /\ ctxDone \in BOOLEAN
  /\ i \in 0..maxRetries
  /\ idx \in 0..(Len(env) + 1)

\* ------------------------------------------------------------ properties

\* the entry has a '=' in it
WellFormedText(e) == \E k \in 1..Len(e) : e[k] = "="

\* the text of e before its first '=' and the text after it
KeyOfText(e) ==
  LET k == CHOOSE x \in 1..Len(e) : e[x] = "=" /\ \A y \in 1..(x - 1) : e[y] # "="
  IN  SubSeq(e, 1, k - 1)

ValueOfText(e) ==
  LET k == CHOOSE x \in 1..Len(e) : e[x] = "=" /\ \A y \in 1..(x - 1) : e[y] # "="
  IN  SubSeq(e, k + 1, Len(e))

\* the entry's value begins with the reference prefix
IsRefText(e) ==
  /\ WellFormedText(e)
  /\ LET v == ValueOfText(e)
     IN  /\ Len(v) >= Len(secretPrefix)
         /\ \A k \in 1..Len(secretPrefix) : v[k] = secretPrefix[k]

\* the text of a reference after the prefix
RemainderText(e) ==
  LET v == ValueOfText(e)
  IN  SubSeq(v, Len(secretPrefix) + 1, Len(v))

\* the prefix occurs nowhere in the entry
PrefixFreeText(x) ==
  \A j \in 0..Len(x) :
    \/ j + Len(secretPrefix) > Len(x)
    \/ \E m \in 1..Len(secretPrefix) : x[j + m] # secretPrefix[m]

\* the same readings of the input entries, worked out once per entry; a
\* string that is no input entry is read from its text
EntryFacts ==
  [e \in Entries |->
     [wf    |-> WellFormedText(e),
      key   |-> IF WellFormedText(e) THEN KeyOfText(e) ELSE <<>>,
      value |-> IF WellFormedText(e) THEN ValueOfText(e) ELSE <<>>,
      ref   |-> IsRefText(e),
      rem   |-> IF IsRefText(e) THEN RemainderText(e) ELSE <<>>,
      free  |-> PrefixFreeText(e)]]

WellFormed(e) == IF e \in Entries THEN EntryFacts[e].wf ELSE WellFormedText(e)

KeyOf(e) == IF e \in Entries THEN EntryFacts[e].key ELSE KeyOfText(e)

ValueOf(e) == IF e \in Entries THEN EntryFacts[e].value ELSE ValueOfText(e)

IsRef(e) == IF e \in Entries THEN EntryFacts[e].ref ELSE IsRefText(e)

Remainder(e) ==
  IF e \in Entries /\ EntryFacts[e].ref THEN EntryFacts[e].rem ELSE RemainderText(e)

\* the prefix occurs nowhere in any entry
PrefixFree(e) ==
  \A k \in 1..Len(e) :
    IF e[k] \in Entries THEN EntryFacts[e[k]].free ELSE PrefixFreeText(e[k])

KeysOf(e) == [k \in 1..Len(e) |-> KeyOf(e[k])]

\* a fetch of the entry at idx is under way or has just returned
InFetch == pc \in {"attempt", "inflight", "select", "fetched"}

\* every string an error chain names
Mentions(err) == {err[k].a : k \in 1..Len(err)} \cup {err[k].b : k \in 1..Len(err)}

\* C1: resolveSecrets returns either the full resolved sequence and no error,
\* or an error and a nil result; entries resolved before a failure are not
\* returned.
C1_AllOrNothing ==
  pc = "done" =>
    \/ /\ ret.err = Nil
       /\ \/ ret.val = env
          \/ Len(ret.val) = Cardinality({k \in 1..Len(env) : WellFormed(env[k])})
    \/ /\ ret.err # Nil
       /\ ret.val = <<>>

\* the second entry fails after the first, a reference, has been resolved
C1_Witness ==
  /\ pc = "done"
  /\ failedAt = 2
  /\ IsRef(env[1])
  /\ Len(result) = 1
  /\ ret.err # Nil
  /\ ret.val = <<>>

\* C2 as stated: when no entry's value begins with the prefix, the input comes
\* back identical, with no error, no client initialization and no fetch.
C2_Original ==
  (pc = "done" /\ \A k \in 1..Len(env) : ~IsRef(env[k])) =>
    /\ ret.val = env
    /\ ret.err = Nil
    /\ configLoads = 0
    /\ fetches = 0

\* C2 amended: when the prefix occurs nowhere in any entry, the input comes
\* back identical, with no error, no client initialization and no fetch.
C2_FastPath ==
  (pc = "done" /\ PrefixFree(env)) =>
    /\ ret.val = env
    /\ ret.err = Nil
    /\ configLoads = 0
    /\ fetches = 0

C2_Witness ==
  /\ pc = "done"
  /\ PrefixFree(env)
  /\ Len(env) = 2
  /\ ~WellFormed(env[1])
  /\ WellFormed(env[2])
  /\ ret.val = env

C4_OrderKept ==
  (pc = "done" /\ ret.err = Nil) =>
    KeysOf(SelectSeq(ret.val, WellFormed)) = KeysOf(SelectSeq(env, WellFormed))

\* two different entries under one key, one of them resolved, both kept
C4_Witness ==
  /\ pc = "done"
  /\ ret.err = Nil
  /\ Len(env) = 2
  /\ env[1] # env[2]
  /\ IsRef(env[1])
  /\ WellFormed(env[2])
  /\ KeyOf(env[1]) = KeyOf(env[2])
  /\ Len(ret.val) = 2
  /\ ret.val[1] # env[1]

C6_RetryBudget ==
  /\ Len(resps) <= 3
  /\ pc = "inflight" => Len(resps) < 3
  /\ \A k \in 1..(Len(resps) - 1) : resps[k].kind = "err"
  /\ (pc \in {"attempt", "inflight", "select"}) => \A k \in 1..Len(resps) : resps[k].kind = "err"
  /\ (pc \in {"fetched", "done"} /\ Len(resps) = 3 /\ resps[3].kind = "err") =>
        fetchRet.err = << [kind |-> "failed after retries", a |-> <<>>, b |-> <<>>, n |-> 3],
                          [kind |-> "store", a |-> <<>>, b |-> <<>>, n |-> resps[3].e] >>
  /\ (fetchRet.err # Nil /\ fetchRet.err[1].kind = "failed after retries") =>
        /\ Len(resps) = 3
        /\ \A k \in 1..3 : resps[k].kind = "err"

\* getParameter has failed three times, the third failure unlike the first two
C6_Witness ==
  /\ pc = "fetched"
  /\ op = "param"
  /\ Len(resps) = 3
  /\ resps[3].kind = "err"
  /\ resps[1].e = resps[2].e
  /\ resps[3].e # resps[2].e
  /\ fetchRet.err[1].n = 3
  /\ fetchRet.err[2].n = resps[3].e

\* C7: when the context is done while a fetch waits between attempts, the
\* fetch returns the context's error as its next step and makes no other call.
C7_CancelInWait ==
  [][(pc = "select" /\ ctxDone) =>
        /\ pc' = "fetched"
        /\ fetchRet' = [val |-> <<>>, err |-> <<[kind |-> "context", a |-> <<>>, b |-> <<>>, n |-> 0]>>]
        /\ resps' = resps
        /\ delays' = delays]_vars

\* the wait before the third call was cut short: the call before it began on
\* a live context and failed, and the fetch returned the context's error
C7_Witness ==
  /\ pc = "fetched"
  /\ Len(resps) = 2
  /\ ~callCtxDone
  /\ ctxDone
  /\ Len(delays) = 1
  /\ fetchRet.err # Nil
  /\ fetchRet.err[1].kind = "context"

\* C8 as stated: a response with no usable value on attempt 1 or 2 is followed
\* by another attempt, so a fetch only ever returns on such a response when
\* it was the third.
C8_Original ==
  (pc = "fetched" /\ resps # <<>> /\ resps[Len(resps)].kind = "nil") => Len(resps) = 3

\* C8 amended: a response with no usable value ends the fetch at once, on
\* whichever attempt it comes: the fetch returns "binary secrets not
\* supported" (getSecret) or "parameter has no value" (getParameter) and makes
\* no further call.
C8_NoValueNotRetried ==
  \A k \in 1..Len(resps) :
    resps[k].kind = "nil" =>
      /\ k = Len(resps)
      /\ pc \in {"fetched", "done"}
      /\ Len(fetchRet.err) = 1
      /\ fetchRet.err[1].kind = IF op = "secret" THEN "binary secrets not supported"
                                ELSE "parameter has no value"

\* the second call of getSecret came back without a string
C8_Witness ==
  /\ pc = "fetched"
  /\ op = "secret"
  /\ Len(resps) = 2
  /\ resps[2].kind = "nil"
  /\ fetchRet.err # Nil

\* the reference at position k has nothing after the prefix, or a '#' first
NoName(k) ==
  /\ k \in 1..Len(env)
  /\ IsRef(env[k])
  /\ LET r == Remainder(env[k])
     IN  r = <<>> \/ r[1] = "#"

\* C9: a reference with nothing after the prefix fails with "empty secret
\* reference", one whose remainder begins with '#' fails with "empty secret
\* name", whatever follows the '#'; neither is ever fetched.
C9_FormatErrors ==
  /\ InFetch => ~NoName(idx)
  /\ pc = "loop" => ~NoName(idx - 1)
  /\ (pc = "done" /\ NoName(failedAt)) =>
        /\ rsErr = << [kind |-> IF Remainder(env[failedAt]) = <<>>
                                THEN "empty secret reference"
                                ELSE "empty secret name",
                       a |-> <<>>, b |-> <<>>, n |-> 0] >>
        /\ op = "none"
        /\ resps = <<>>
  /\ (pc = "done" /\ ret.err = Nil /\ configLoads > 0) =>
        \A k \in 1..Len(env) : ~NoName(k)

\* the reference "aws-secret:#" failed after an earlier reference was fetched
C9_Witness ==
  /\ pc = "done"
  /\ failedAt = 2
  /\ IsRef(env[2])
  /\ Remainder(env[2]) = <<"#">>
  /\ fetches = 1
  /\ rsErr[1].kind = "empty secret name"

\* C10: a secret reference is split at its first '#' only: the name fetched
\* is the text before it, the key all the text after it, further '#'
\* included; a reference ending in '#' has a key, the empty one.
C10_FirstHashSplits ==
  (InFetch /\ op = "secret") =>
    LET r == Remainder(env[idx])
    IN  /\ fname = parts[1]
        /\ \A k \in 1..Len(fname) : fname[k] # "#"
        /\ Len(parts) \in {1, 2}
        /\ Len(parts) = 1 => r = fname
        /\ Len(parts) = 2 => r = fname \o <<"#">> \o parts[2]

\* name#k#k: the name "n" is fetched and the key is "k#k"
C10_Witness ==
  /\ pc = "fetched"
  /\ op = "secret"
  /\ fname = <<"n">>
  /\ parts = << <<"n">>, <<"k", "#", "k">> >>
  /\ fetchRet.err = Nil

\* the reference's remainder begins with the parameter-store prefix
ParameterPath(r) ==
  /\ Len(r) >= Len(ssmPrefix)
  /\ \A k \in 1..Len(ssmPrefix) : r[k] = ssmPrefix[k]

IsParameterRef(e) == IsRef(e) /\ ParameterPath(Remainder(e))

\* the frames of an error chain that report a JSON or key failure
ExtractionFrames(err) ==
  {k \in 1..Len(err) : err[k].kind \in {"not valid JSON", "key not found", "json"}}

\* C11: a reference whose remainder starts with
\* "/aws/reference/secretsmanager/" goes through the parameter fetch only: the
\* path is the whole remainder, any '#' included, decryption is requested, no
\* secret is fetched by name, nothing is parsed and no key is extracted; the
\* fetched value is returned unchanged.
C11_ParameterPath ==
  /\ InFetch =>
        LET r == Remainder(env[idx])
        IN  ParameterPath(r) =>
              /\ op = "param"
              /\ fname = r
              /\ parts = <<>>
              /\ Request(op, fname) =
                   [api |-> "GetParameter", id |-> r, withDecryption |-> TRUE]
              /\ (pc = "fetched" /\ fetchRet.err = Nil) =>
                   Resolved = [val |-> resps[Len(resps)].val, err |-> Nil]
  /\ (pc = "done" /\ failedAt > 0
        /\ (op # "param" \/ ExtractionFrames(rsErr) # {})) =>
        ~IsParameterRef(env[failedAt])

\* the path ".../t#k" was fetched whole and the payload {"k":"v"} came back
C11_Witness ==
  /\ pc = "fetched"
  /\ op = "param"
  /\ \E k \in 1..Len(fname) : fname[k] = "#"
  /\ fetchRet.err = Nil
  /\ fetchRet.val = PayloadKV
  /\ Resolved.val = PayloadKV

\* what the payloads of the catalogue say: whether each is an object of
\* string members, and its members as (key, value) pairs
IsMapping(p) == p \in {PayloadKV, PayloadEmpty, PayloadMulti}

Members(p) ==
  IF p = PayloadKV THEN { << <<"k">>, <<"v">> >> }
  ELSE IF p = PayloadMulti
       THEN { << <<"k","#","k">>, <<"w">> >>, << <<>>, <<"e">> >> }
       ELSE {}

\* C12: for a keyed reference whose fetch succeeds, a mapping holding the key
\* gives exactly the mapped value, a mapping without the key (the empty one
\* included) gives a key-not-found error naming key and secret, and a payload
\* that is no such mapping gives a not-JSON error naming the secret; after
\* either error the secret is not fetched again.
C12_KeyedOutcome ==
  /\ (pc = "fetched" /\ op = "secret" /\ Len(parts) = 2 /\ fetchRet.err = Nil) =>
        LET p    == resps[Len(resps)].val
            key  == parts[2]
            hits == {m \in Members(p) : m[1] = key}
        IN  IF ~IsMapping(p)
            THEN Resolved =
                   [val |-> <<>>,
                    err |-> << [kind |-> "not valid JSON", a |-> fname,
                                b |-> <<>>, n |-> 0] >> \o Leaf("json")]
            ELSE IF hits = {}
                 THEN Resolved =
                        [val |-> <<>>,
                         err |-> << [kind |-> "key not found", a |-> key,
                                     b |-> fname, n |-> 0] >>]
                 ELSE \E m \in hits : Resolved = [val |-> m[2], err |-> Nil]
  /\ (pc = "done" /\ rsErr # Nil
        /\ rsErr[1].kind \in {"not valid JSON", "key not found"}) =>
        /\ op = "secret"
        /\ resps # <<>>
        /\ resps[Len(resps)].kind = "val"
        /\ \A k \in 1..(Len(resps) - 1) : resps[k].kind = "err"

\* the key "k" was missing from {} on the second attempt; nothing followed
C12_Witness ==
  /\ pc = "done"
  /\ rsErr # Nil
  /\ rsErr[1].kind = "key not found"
  /\ rsErr[1].a = <<"k">>
  /\ rsErr[1].b = <<"n">>
  /\ Len(resps) = 2
  /\ resps[2].val = PayloadEmpty

\* the reference has no '#' after the prefix
NoKeyPart(e) ==
  /\ IsRef(e)
  /\ LET r == Remainder(e)
     IN  /\ ~ParameterPath(r)
         /\ \A k \in 1..Len(r) : r[k] # "#"

Returned == exitCode # <<>>

\* C14: when the child starts and exits on its own with code c, execute
\* returns exactly c, whatever signals were relayed and whatever timers were
\* started while it ran.
C14_NormalExitCode ==
  (Returned /\ status.kind = "exited") => exitCode = <<status.code>>

\* the child exited with 42 after a SIGTERM had been relayed and its timer started
C14_Witness ==
  /\ exitCode = <<42>>
  /\ status = [kind |-> "exited", code |-> 42]
  /\ \E k \in DOMAIN forwards :
       forwards[k].sig = "TERM" /\ forwards[k].timer = "sleeping"

\* C15 as stated: a child ended by a signal makes execute return 1, and every
\* value execute returns is the child's own exit code or 1.
C15_Original ==
  Returned =>
    /\ status.kind = "signaled" => exitCode = <<1>>
    /\ \/ exitCode = <<1>>
       \/ status.kind = "exited" /\ exitCode = <<status.code>>

\* C16: when the spawn fails execute returns 1 at once: there is no child, no
\* subscription, no relay task, and no signal is taken or sent.
C16_SpawnFailure ==
  (child = "none" /\ xpc \notin {"idle", "fatal", "start"}) =>
    /\ xpc \in {"returned", "exited"}
    /\ exitCode = <<1>>
    /\ ~notifyOn
    /\ hpc = "none"
    /\ arrived = 0
    /\ sigChan = <<>>
    /\ cur = NoSignal
    /\ forwards = <<>>

\* cmd.Start failed and execute has returned
C16_Witness ==
  /\ xpc = "returned"
  /\ child = "none"
  /\ exitCode = <<1>>

\* C17: each signal the relay task takes is sent to the process group and to
\* the pid, once each and in that order, whether or not the other send fails;
\* a failed send neither stops the task nor changes what execute returns.
C17_BothTargets ==
  /\ hpc = "group" => cur.sig \in Handled /\ cur.sends = <<>>
  /\ hpc = "pid" =>
        /\ Len(cur.sends) = 1
        /\ cur.sends[1].target = "group"
  /\ (hpc = "recv" /\ cur.sig # "none") =>
        /\ Len(cur.sends) = 2
        /\ cur.sends[1].target = "group"
        /\ cur.sends[2].target = "pid"
  /\ (child # "none" /\ xpc \in {"wait", "stop", "returned"}) =>
        hpc \in {"recv", "group", "pid"}
  /\ (Returned /\ status.kind = "exited") => exitCode = <<status.code>>

\* the send to the group failed, the send to the pid followed, the task is
\* back at the channel and execute returned the child's code
C17_Witness ==
  /\ hpc = "recv"
  /\ Len(cur.sends) = 2
  /\ ~cur.sends[1].ok
  /\ cur.sends[2].ok
  /\ exitCode = <<42>>

\* C18 as stated: once any of SIGTERM, SIGINT, SIGQUIT has been forwarded and
\* the child still runs more than 10 seconds later, a forced kill is on its
\* way or sent.
C18_Original ==
  \A k \in DOMAIN forwards :
    (forwards[k].age > gracefulTimeout /\ child = "running") =>
      forwards[k].timer # "none"

\* C18: a forced kill follows SIGTERM only.  Each forwarded SIGTERM has a
\* timer, which after no less than 10 seconds sends SIGKILL to the pid and
\* then to the process group, the second whether or not the first failed;
\* while the supervisor runs nothing holds these sends back.  SIGINT and
\* SIGQUIT have no timer and no SIGKILL is sent for them.
C18_TermTimer ==
  \A k \in DOMAIN forwards :
    LET f == forwards[k]
    IN  /\ f.sig \in TermClass
        /\ f.sig = "TERM" <=> f.timer # "none"
        /\ f.timer \in {"none", "sleeping"} => f.kills = <<>>
        /\ f.timer = "killedpid" =>
              Len(f.kills) = 1 /\ f.kills[1].target = "pid"
        /\ f.timer = "done" =>
              /\ Len(f.kills) = 2
              /\ f.kills[1].target = "pid"
              /\ f.kills[2].target = "group"
        /\ f.kills # <<>> => f.age >= gracefulTimeout
        /\ (Alive /\ f.timer = "sleeping" /\ f.age >= gracefulTimeout) =>
              ENABLED TimerKillPid
        /\ (Alive /\ f.timer = "killedpid") => ENABLED TimerKillGroup

\* the child ignored SIGTERM; after the 10 seconds the SIGKILL to its pid
\* failed, the one to its group went out and ended it
C18_Witness ==
  \E k \in DOMAIN forwards :
    /\ forwards[k].sig = "TERM"
    /\ forwards[k].timer = "done"
    /\ forwards[k].kills[1].live
    /\ ~forwards[k].kills[1].ok
    /\ forwards[k].kills[2].live
    /\ forwards[k].kills[2].ok
    /\ status.kind = "signaled"

C20_ExecuteAfterResolve ==
  /\ pc # "done" => xpc = "idle"
  /\ xpc \notin {"idle", "fatal"} =>
        /\ pc = "done"
        /\ ret.err = Nil
        /\ cmdEnv = ret.val
  /\ (pc = "done" /\ ret.err # Nil) =>
        /\ xpc \in {"idle", "fatal"}
        /\ cmdEnv = <<>>
        /\ child = "none"

\* execute was called with a resolved environment that differs from the input
C20_Witness ==
  /\ xpc = "start"
  /\ fetches = 2
  /\ cmdEnv = result
  /\ cmdEnv # env
  /\ \A k \in 1..Len(env) : IsRef(env[k])

\* the state of the supervised child, read off the supervisor: before
\* cmd.Start returns, after it failed, while the child runs with no timer
\* started, while it runs with a timer started, after it ended
State ==
  IF xpc \in {"idle", "fatal"} THEN "NotCalled"
  ELSE IF xpc = "start" THEN "Starting"
  ELSE IF child = "none" THEN "FailedToStart"
  ELSE IF child # "running" THEN "Terminated"
  ELSE IF \E k \in DOMAIN forwards : forwards[k].timer # "none" THEN "ShuttingDown"
  ELSE "Running"

StateOrder ==
  { <<"Starting", "Running">>, <<"Starting", "FailedToStart">>,
    <<"Running", "ShuttingDown">>, <<"Running", "Terminated">>,
    <<"ShuttingDown", "Terminated">> }

\* C21: the child's state only moves Starting -> Running -> ShuttingDown ->
\* Terminated, Running -> Terminated, or Starting -> FailedToStart, so no
\* state is entered twice and FailedToStart and Terminated are never left.
\* ShuttingDown is entered only by the relay task finishing the forward of a
\* SIGTERM and starting its timer; while SIGUSR1 or SIGUSR2 is forwarded the
\* state changes only if the child ends.
C21_StateOrder ==
  [][State' # State =>
       /\ << State, State' >> \in StateOrder
       /\ State' = "ShuttingDown" =>
            /\ hpc = "pid" /\ hpc' = "recv"
            /\ cur.sig = "TERM"
            /\ forwards' = Append(forwards, Forward("TERM", "sleeping", FALSE))
       /\ (hpc \in {"group", "pid"} /\ cur.sig \in {"USR1", "USR2"}) =>
            State' = "Terminated"]_vars

\* the child ran, a forwarded SIGTERM started a timer, a second SIGTERM was
\* forwarded while shutting down, and the child then exited on its own
C21_Witness ==
  /\ State = "Terminated"
  /\ status.kind = "exited"
  /\ Len(forwards) = 2
  /\ \A k \in DOMAIN forwards :
       forwards[k].timer # "none" /\ ~forwards[k].early /\ forwards[k].kills = <<>>

\* C22: within one fetch there is no wait before the first call, the wait
\* before call k + 1 is 100ms * k, so 100ms and then 200ms, and a fetch whose
\* three calls all failed has waited 300ms between them; getSecret and
\* getParameter alike.
C22_RetryWaits ==
  /\ Len(delays) <= 2
  /\ \A k \in 1..Len(delays) : delays[k] = 100 * k
  /\ pc \in {"attempt", "inflight"} => Len(delays) = Len(resps)
  /\ pc = "select" => Len(delays) = Len(resps) - 1
  /\ (pc = "fetched" /\ Len(resps) = 3) =>
        /\ delays = << 100, 200 >>
        /\ delays[1] + delays[2] = 300

\* getSecret made its three calls on a live context and all of them failed
C22_Witness ==
  /\ pc = "fetched"
  /\ op = "secret"
  /\ ~ctxDone
  /\ Len(resps) = 3
  /\ fetchRet.err # Nil
  /\ delays = << retryDelay, 2 * retryDelay >>

\* the timer goroutines started so far
TimersStarted == Cardinality({k \in DOMAIN forwards : forwards[k].timer # "none"})

\* C23: the relay task starts one timer each time it has forwarded a SIGTERM
\* and at no other step, so the timers started are as many as the SIGTERMs
\* forwarded; forwarding SIGUSR1, SIGUSR2, SIGINT or SIGQUIT starts none.  A
\* timer is never merged with another or set back, and each makes its own two
\* SIGKILL sends, one per step.
C23_TimerPerTerm ==
  [][/\ TimersStarted' =
          IF hpc = "pid" /\ hpc' = "recv" /\ cur.sig = "TERM"
          THEN TimersStarted + 1 ELSE TimersStarted
     /\ Len(forwards') >= Len(forwards)
     /\ \A k \in DOMAIN forwards :
          /\ forwards'[k].sig = forwards[k].sig
          /\ forwards'[k].timer = "sleeping" =>
                forwards[k].timer = "sleeping" /\ forwards'[k].age >= forwards[k].age
          /\ forwards'[k].kills # forwards[k].kills =>
                /\ Len(forwards'[k].kills) = Len(forwards[k].kills) + 1
                /\ Len(forwards'[k].kills) <= 2
                /\ \A j \in DOMAIN forwards :
                     j # k => forwards'[j].kills = forwards[j].kills]_vars

\* two SIGTERMs were forwarded and each timer has made its two sends
C23_Witness ==
  /\ Len(forwards) = 2
  /\ TimersStarted = 2
  /\ \A k \in DOMAIN forwards :
       /\ forwards[k].sig = "TERM"
       /\ forwards[k].timer = "done"
       /\ Len(forwards[k].kills) = 2

\* a SIGKILL has been sent by some timer
KillIssued == \E k \in DOMAIN forwards : forwards[k].kills # <<>>

\* the forwarded SIGTERMs, and the first of them
Terms == {k \in DOMAIN forwards : forwards[k].sig = "TERM"}

FirstTerm == CHOOSE t \in Terms : \A k \in Terms : t <= k

\* C24 as stated: the first forced kill comes 10 seconds after the first of
\* SIGTERM, SIGINT, SIGQUIT was forwarded: not before, and once those 10
\* seconds are over it has been sent or nothing holds it back.
C24_Original ==
  forwards # <<>> =>
    /\ KillIssued => forwards[1].age >= gracefulTimeout
    /\ (Alive /\ forwards[1].age >= gracefulTimeout) =>
          KillIssued \/ ENABLED TimerKillPid

\* C24: the 10 seconds run from the first SIGTERM forwarded.  No SIGKILL is
\* sent before that SIGTERM is 10 seconds old, and once it is, its timer's
\* send is held back by nothing, however many signals were forwarded after
\* it; no later SIGTERM is older than the first, and without a forwarded
\* SIGTERM no SIGKILL is sent at all.
C24_FirstTermDeadline ==
  /\ Terms = {} => ~KillIssued
  /\ Terms # {} =>
        LET first == forwards[FirstTerm]
        IN  /\ KillIssued => first.age >= gracefulTimeout
            /\ first.timer = "sleeping" =>
                  \A k \in Terms : forwards[k].age <= first.age
            /\ (Alive /\ first.timer = "sleeping" /\ first.age >= gracefulTimeout) =>
                  ENABLED TimerKillPid

\* a second termination signal was forwarded less than 10 seconds ago, and
\* the timer of the first SIGTERM has sent its SIGKILL to the running child
C24_Witness ==
  /\ Len(forwards) = 2
  /\ forwards[1].sig = "TERM"
  /\ forwards[1].kills # <<>>
  /\ forwards[1].kills[1].live
  /\ forwards[2].age < gracefulTimeout
  /\ forwards[2].kills = <<>>

\* a timer makes a send in this step
TimerSends ==
  \E k \in DOMAIN forwards : forwards'[k].kills # forwards[k].kills

C26_Original ==
  [][(xpc = "returned" /\ ~notifyOn /\ child = "reaped") =>
        Len(cur'.sends) <= Len(cur.sends)]_vars

\* C27 as stated: once execute has returned after the child's exit, the relay
\* task has ended: it neither waits at the channel nor forwards.
C27_Original ==
  (xpc = "returned" /\ child # "none") => hpc \notin {"recv", "group", "pid"}

\* both SIGKILLs of the timer of forward k failed
KillsFailed(k) ==
  /\ k \in DOMAIN forwards
  /\ forwards[k].timer = "done"
  /\ \A j \in DOMAIN forwards[k].kills : ~forwards[k].kills[j].ok

FetchedUpTo(n) == {k \in 1..n : IsRef(env[k]) /\ ~NoName(k)}

\* C29: references are resolved one at a time in input order.  A fetch is
\* always the fetch of the one entry the loop is at; when it starts, every
\* earlier well-formed entry is in the result, every earlier reference was
\* fetched exactly once and none has failed; once an entry has failed no fetch
\* is started for a later one.
C29_OneAtATime ==
  /\ InFetch =>
        /\ idx \in 1..Len(env)
        /\ failedAt = 0
        /\ op # "none"
  /\ (pc = "attempt" /\ resps = <<>>) =>
        /\ IsRef(env[idx])
        /\ rsErr = Nil
        /\ Len(result) = Cardinality({k \in 1..(idx - 1) : WellFormed(env[k])})
        /\ fetches = Cardinality(FetchedUpTo(idx))
  /\ (pc = "done" /\ failedAt > 0) =>
        /\ idx = failedAt
        /\ fetches = Cardinality(FetchedUpTo(failedAt))

\* the fetch for the second reference starts, the first one being resolved
C29_Witness ==
  /\ pc = "attempt"
  /\ resps = <<>>
  /\ idx = 2
  /\ fetches = 2
  /\ Len(result) = 1
  /\ IsRef(env[1])

\* C30 as stated: no client call begins on a context that is already done,
\* and a fetch whose last call began on a done context returns the context's
\* error, not the error of exhausted retries.
C30_Original ==
  /\ pc = "inflight" => ~callCtxDone
  /\ (pc = "fetched" /\ callCtxDone) => fetchRet.err = CtxErr

\* where the entry at k comes out: malformed entries before it are dropped
OutputIndex(k) == Cardinality({j \in 1..k : WellFormed(env[j])})

\* C31: when resolveSecrets has loaded the client configuration and returns
\* without error, every well-formed entry whose value does not begin with the
\* prefix is in the output as it was in the input, at the place input order
\* gives it, a value holding '=' or holding the prefix further on included;
\* and fetches were made for references only.
C31_PassThrough ==
  (pc = "done" /\ ret.err = Nil /\ configLoads > 0) =>
    /\ \A k \in 1..Len(env) :
         (WellFormed(env[k]) /\ ~IsRef(env[k])) => ret.val[OutputIndex(k)] = env[k]
    /\ fetches = Cardinality(FetchedUpTo(Len(env)))

\* a value holding a second '=' and a value holding the prefix after its first
\* character both came through the loop unchanged, and nothing was fetched
C31_Witness ==
  /\ pc = "done"
  /\ ret.err = Nil
  /\ configLoads = 1
  /\ env = << EqualsEntry, MidValueEntry >>
  /\ ret.val = env
  /\ fetches = 0

\* C32 as stated: the client configuration is loaded at most once, and once
\* the scan is over it has been loaded exactly when some entry's value begins
\* with the prefix.
C32_Original ==
  /\ configLoads <= 1
  /\ pc \notin {"scan", "config"} =>
        (configLoads = 1 <=> \E k \in 1..Len(env) : IsRef(env[k]))

\* C32: the client configuration is loaded at most once per call and before
\* any entry is processed, and it is loaded exactly when the prefix text
\* occurs somewhere in some entry, inside a value or in an entry without '='
\* as well as at the start of a value.  Only a call whose entries hold the
\* prefix nowhere loads nothing and cannot fail on loading.
C32_InitOnce ==
  /\ configLoads <= 1
  /\ pc = "scan" => configLoads = 0
  /\ pc = "config" => configLoads = 0 /\ ~PrefixFree(env)
  /\ configLoads = 0 => idx = 0 /\ result = <<>> /\ fetches = 0
  /\ pc \in {"loop", "attempt", "inflight", "select", "fetched"} => configLoads = 1
  /\ pc = "done" =>
        /\ configLoads = 1 <=> ~PrefixFree(env)
        /\ (ret.err # Nil /\ ret.err[1].kind = "config") =>
              configLoads = 1 /\ failedAt = 0 /\ fetches = 0

\* no value begins with the prefix, yet the prefix inside a value made the
\* call load the configuration, and the call failed on that
C32_Witness ==
  /\ pc = "done"
  /\ env = << PlainEntry, MidValueEntry >>
  /\ configLoads = 1
  /\ ret.err # Nil
  /\ ret.err[1].kind = "config"

\* C33 as stated, its first half: every handled signal that reaches the
\* supervisor while the started child runs is kept for the relay task, which
\* is what forwarding it later needs.
C33_Original ==
  [][(arrived' = arrived + 1 /\ child = "running") =>
        /\ xpc' # "exited"
        /\ Len(sigChan') = Len(sigChan) + 1]_vars

====
